---- MODULE Spec2Model ----
(***************************************************************************)
(* The control loop of poloniexlendingbot/bin/lendingbot.py (main), as a   *)
(* state machine.  One lending cycle is the body of the inner try          *)
(* (lines 76-86); the except clauses of lines 87-133 are the failure       *)
(* handlers; the outer except clause (lines 136-141) is the shutdown path. *)
(*                                                                         *)
(* The collaborators (Data, Lending, PluginsManager, Logger, the exchange  *)
(* adapter) are not part of the modelled code: a call to one of them       *)
(* either returns, raises an exception drawn from Exceptions, or is        *)
(* interrupted by the operator (KeyboardInterrupt).                        *)
(***************************************************************************)
EXTENDS Integers, Sequences, FiniteSets, TLC

\* ---------------------------------------------------------------- bounds
\* the cycle interval Lending.get_sleep_time() ranges over
\* BanSleep - SleepSpread .. BanSleep + SleepSpread
SleepSpread == 1
\* api.default_req_period ranges over 1 .. MaxDefaultPeriod
MaxDefaultPeriod == 6
\* a failure message contains at most MaxIndicators of the indicators
MaxIndicators == 2

\* ------------------------------------------------------ program constants
\* line 115: max(130.0 - Lending.get_sleep_time(), 0)
BanSleep == 130
\* line 120: api.req_period += 3
ReqPeriodStep == 3

\* ------------------------------------------------------------ exceptions
\* the message substrings tested by lines 99-114
Indicators ==
    {"Invalid API key", "Nonce must be greater", "Permission denied",
     "timed out", "Error 429"}

\* the classes the except clauses of lines 90-96 tell apart; "Exception" is
\* any other subclass of Exception
ExTypes == {"BadStatusLine", "URLError", "ApiError", "Exception"}

\* A raised failure: its class, the indicators its message contains, and
\* whether its class supports the membership test `s in ex` (as a substring
\* test on its message).  The program runs under Python 3 (lines 7-8 import
\* http.client and urllib.error), where the built-in exception classes do
\* not support it: for them `s in ex` raises TypeError.
Exceptions ==
    [type : ExTypes,
     msg : {m \in SUBSET Indicators : Cardinality(m) <= MaxIndicators},
     container : BOOLEAN]

NoEx == [type |-> "none", msg |-> {}, container |-> FALSE]

\* --------------------------------------------------------------- the cycle
\* lines 76-86: the statements of one cycle, in program order
CycleSteps ==
    <<"update_conversion_rates", "before_lending", "transfer_balances",
      "cancel_all", "lend_all", "after_lending", "refreshStatus",
      "persistStatus", "sleep">>

\* the statement after step i of the cycle; after the sleep, line 74 again
NextPc(i) == IF i < Len(CycleSteps) THEN CycleSteps[i + 1] ELSE "loop"

StepIndex(s) == CHOOSE i \in 1..Len(CycleSteps) : CycleSteps[i] = s

\* steps 1-7 of the spec are the collaborator calls of lines 76-84
CallSteps == {CycleSteps[i] : i \in 1..(Len(CycleSteps) - 1)}

\* positions inside the inner try body (lines 76-86)
BodyPcs == {CycleSteps[i] : i \in 1..Len(CycleSteps)}

\* positions inside the except clauses of lines 90-133
HandlerPcs == {"except", "additional_sleep", "handler_sleep"}

\* positions at which time.sleep is executing (lines 86, 125, 133)
SleepPcs == {"sleep", "additional_sleep", "handler_sleep"}

VARIABLES
    pc,                 \* position of the main thread
    sleep_time,         \* Lending.get_sleep_time()
    has_analysis,       \* Config.has_option('MarketAnalysis', 'analyseCurrencies')
    notify_caught,      \* notify_conf['notify_caught_exception']
    web_server_enabled, \* Config.getboolean('BOT', 'startWebServer')
    default_req_period, \* api.default_req_period
    req_period,         \* api.req_period
    ex,                 \* the failure of the current cycle, NoEx if none
    branch,             \* the except clause / if branch that handled ex
    trace,              \* collaborator calls completed in the current cycle
    slept,              \* durations of the sleeps completed in the current cycle
    intr_at,            \* position at which the operator interrupt arrived
    exit_hooks,         \* number of calls of PluginsManager.on_bot_exit()
    web_stopped,        \* WebServer.stop_web_server() was called
    exit_status,        \* exit status of the process, -1 while running
    factory,            \* ExchangeApiFactory: the calls of createApi
    limiter,            \* the rate limiter of the adapter (limit_request_rate)
    transport           \* the nonce counter of the authenticated transport

vars == <<pc, sleep_time, has_analysis, notify_caught, web_server_enabled,
          default_req_period, req_period, ex, branch, trace, slept, intr_at,
          exit_hooks, web_stopped, exit_status, factory, limiter, transport>>

\* the components below the control loop, which main itself never changes
components == <<factory, limiter, transport>>

config == <<sleep_time, has_analysis, notify_caught, web_server_enabled,
            default_req_period>>

SleepTimes == (BanSleep - SleepSpread)..(BanSleep + SleepSpread)

\* the components before any call of them
NoCall == [exchange |-> "none"]
FactoryIdle == [calls |-> 0, constructed |-> <<>>, last |-> NoCall]
LimiterIdle == [now |-> 0, log |-> <<>>, ret |-> <<>>]
TransportIdle == [nonce |-> 0, issued |-> <<>>, attempts |-> 0, call |-> <<>>]

\* lines 29-71: the state when the loop is entered at line 73
Init ==
    /\ pc = "loop"
    /\ sleep_time \in SleepTimes
    /\ has_analysis \in BOOLEAN
    /\ notify_caught \in BOOLEAN
    /\ web_server_enabled \in BOOLEAN
    /\ default_req_period \in 1..MaxDefaultPeriod
    /\ req_period = default_req_period
    /\ ex = NoEx
    /\ branch = "none"
    /\ trace = <<>>
    /\ slept = <<>>
    /\ intr_at = "none"
    /\ exit_hooks = 0
    /\ web_stopped = FALSE
    /\ exit_status = -1
    /\ factory = FactoryIdle
    /\ limiter = LimiterIdle
    /\ transport = TransportIdle

\* line 74: while True -- a new cycle begins
BeginCycle ==
    /\ pc = "loop"
    /\ pc' = CycleSteps[1]
    /\ ex' = NoEx
    /\ branch' = "none"
    /\ trace' = <<>>
    /\ slept' = <<>>
    /\ UNCHANGED <<config, components, req_period, intr_at, exit_hooks, web_stopped,
                   exit_status>>

\* StepTarget with lend_all and cancel_all in the other order
StepTarget_Swapped(s) ==
    IF s = "transfer_balances" THEN "lend_all"
    ELSE IF s = "lend_all" THEN "cancel_all"
    ELSE IF s = "cancel_all" THEN "after_lending"
    ELSE NextPc(StepIndex(s))

\* lines 76-86: where control goes when the statement s of the cycle returns
StepTarget(s) == NextPc(StepIndex(s))

Step ==
    /\ pc \in CallSteps
    /\ trace' = Append(trace, pc)
    /\ pc' = StepTarget(pc)
    /\ UNCHANGED <<config, components, req_period, ex, branch, slept, intr_at,
                   exit_hooks, web_stopped, exit_status>>

\* lines 85-86: time.sleep(Lending.get_sleep_time()) returns
Sleep ==
    /\ pc = "sleep"
    /\ slept' = Append(slept, sleep_time)
    /\ trace' = Append(trace, "sleep")
    /\ pc' = StepTarget(pc)
    /\ UNCHANGED <<config, components, req_period, ex, branch, intr_at, exit_hooks,
                   web_stopped, exit_status>>

\* lines 76-84: the collaborator call at pc raises e
Fail ==
    /\ pc \in CallSteps
    /\ \E e \in Exceptions : ex' = e
    /\ pc' = "except"
    /\ UNCHANGED <<config, components, req_period, branch, trace, slept, intr_at,
                   exit_hooks, web_stopped, exit_status>>

\* ------------------------------------------------- the typed except clauses
\* lines 90-91: except BadStatusLine -- print, then line 74 again
HandleBadStatusLine ==
    /\ pc = "except"
    /\ ex.type = "BadStatusLine"
    /\ branch' = "BadStatusLine"
    /\ pc' = "loop"
    /\ UNCHANGED <<config, components, req_period, ex, trace, slept, intr_at, exit_hooks,
                   web_stopped, exit_status>>

\* HandleURLError falling through to the sleep of line 133
HandleURLError_Sleeps ==
    /\ pc = "except"
    /\ ex.type = "URLError"
    /\ branch' = "URLError"
    /\ pc' = "handler_sleep"
    /\ UNCHANGED <<config, components, req_period, ex, trace, slept, intr_at, exit_hooks,
                   web_stopped, exit_status>>

\* lines 92-93: except URLError -- print, then line 74 again
HandleURLError ==
    /\ pc = "except"
    /\ ex.type = "URLError"
    /\ branch' = "URLError"
    /\ pc' = "loop"
    /\ UNCHANGED <<config, components, req_period, ex, trace, slept, intr_at, exit_hooks,
                   web_stopped, exit_status>>

\* HandleApiError re-raising when the message holds a Fatal indicator
HandleApiError_ByMessage ==
    /\ pc = "except"
    /\ ex.type = "ApiError"
    /\ branch' = "ApiError"
    /\ pc' = IF ex.msg \cap {"Invalid API key", "Nonce must be greater",
                             "Permission denied"} # {}
             THEN "crashed" ELSE "loop"
    /\ exit_status' = IF pc' = "crashed" THEN 1 ELSE exit_status
    /\ UNCHANGED <<config, components, req_period, ex, trace, slept, intr_at, exit_hooks,
                   web_stopped>>

\* lines 94-95: except ApiError -- print, then line 74 again
HandleApiError ==
    /\ pc = "except"
    /\ ex.type = "ApiError"
    /\ branch' = "ApiError"
    /\ pc' = "loop"
    /\ UNCHANGED <<config, components, req_period, ex, trace, slept, intr_at, exit_hooks,
                   web_stopped, exit_status>>

\* ------------------------------------------------ the generic except clause
\* lines 99-131: the if/elif chain on the message, first match wins; the
\* test `'Invalid API key' in ex` of line 99 raises TypeError when the class
\* of ex does not support the membership test
Classify(e) ==
    IF ~e.container THEN "TypeError"
    ELSE IF "Invalid API key" \in e.msg THEN "Invalid API key"
    ELSE IF "Nonce must be greater" \in e.msg THEN "Nonce must be greater"
    ELSE IF "Permission denied" \in e.msg THEN "Permission denied"
    ELSE IF "timed out" \in e.msg THEN "timed out"
    ELSE IF "Error 429" \in e.msg THEN "Error 429"
    ELSE "unhandled"

\* the branches that end in `raise` (lines 102, 106, 110)
FatalBranches ==
    {"Invalid API key", "Nonce must be greater", "Permission denied"}

\* the branches that leave main with an exception: the three re-raises and
\* the TypeError of line 99
RaisingBranches == FatalBranches \cup {"TypeError"}

\* line 115: additional_sleep = max(130.0 - Lending.get_sleep_time(), 0)
AdditionalSleepTime(s) == IF BanSleep - s > 0 THEN BanSleep - s ELSE 0

\* NewReqPeriod falling back to the default once the cap is passed
NewReqPeriod_Decay(r, d, analysis) ==
    IF analysis /\ 2 * r <= 3 * d THEN r + ReqPeriodStep ELSE d

\* NewReqPeriod without the has_option('MarketAnalysis', ...) test
NewReqPeriod_Unconditional(r, d, analysis) ==
    IF 2 * r <= 3 * d THEN r + ReqPeriodStep ELSE r

\* lines 118-120: req_period after the 'Error 429' branch; the test
\* api.req_period <= api.default_req_period * 1.5 is 2 * r <= 3 * d
NewReqPeriod(r, d, analysis) ==
    IF analysis /\ 2 * r <= 3 * d THEN r + ReqPeriodStep ELSE r

\* lines 97-131: the calls of the logger made by the generic clause, in order
HandlerCalls(b, notify) ==
    <<"log_error", "persistStatus">> \o
    (IF b = "Error 429" THEN <<"log_error">>
     ELSE IF b = "unhandled" /\ notify THEN <<"notify">>
     ELSE <<>>)

\* HandleException without the raise statements of lines 102, 106 and 110
HandleException_NoRaise ==
    /\ pc = "except"
    /\ ex.type = "Exception"
    /\ LET b == Classify(ex) IN
        /\ branch' = b
        /\ trace' = trace \o HandlerCalls(b, notify_caught)
        /\ req_period' =
               IF b = "Error 429"
               THEN NewReqPeriod(req_period, default_req_period, has_analysis)
               ELSE req_period
        /\ pc' = IF b = "TypeError" THEN "crashed"
                 ELSE IF b = "Error 429" THEN "additional_sleep"
                 ELSE "handler_sleep"
        /\ exit_status' = IF b = "TypeError" THEN 1 ELSE exit_status
    /\ UNCHANGED <<config, components, ex, slept, intr_at, exit_hooks, web_stopped>>

\* lines 96-124 and 126-131: except Exception, up to the first sleep
HandleException ==
    /\ pc = "except"
    /\ ex.type = "Exception"
    /\ LET b == Classify(ex) IN
        /\ branch' = b
        /\ trace' = trace \o HandlerCalls(b, notify_caught)
        /\ req_period' =
               IF b = "Error 429"
               THEN NewReqPeriod(req_period, default_req_period, has_analysis)
               ELSE req_period
        /\ pc' = IF b \in RaisingBranches THEN "crashed"
                 ELSE IF b = "Error 429" THEN "additional_sleep"
                 ELSE "handler_sleep"
        /\ exit_status' = IF b \in RaisingBranches THEN 1 ELSE exit_status
    /\ UNCHANGED <<config, components, ex, slept, intr_at, exit_hooks, web_stopped>>

\* line 125: time.sleep(additional_sleep) returns
AdditionalSleep ==
    /\ pc = "additional_sleep"
    /\ slept' = Append(slept, AdditionalSleepTime(sleep_time))
    /\ pc' = "handler_sleep"
    /\ UNCHANGED <<config, components, req_period, ex, branch, trace, intr_at, exit_hooks,
                   web_stopped, exit_status>>

\* lines 132-133: time.sleep(Lending.get_sleep_time()) returns
HandlerSleep ==
    /\ pc = "handler_sleep"
    /\ slept' = Append(slept, sleep_time)
    /\ pc' = "loop"
    /\ UNCHANGED <<config, components, req_period, ex, branch, trace, intr_at, exit_hooks,
                   web_stopped, exit_status>>

\* ------------------------------------------------------ operator interrupt
\* Where a KeyboardInterrupt raised at position p is caught: inside the inner
\* try body by the clause of line 87, elsewhere in the loop (line 74 and the
\* except clauses) by the clause of line 136.  The model delivers at most one
\* interrupt in a run.
InterruptTarget(p) == IF p \in BodyPcs THEN "except_kbd" ELSE "interrupted"

\* Interrupt observed only when the call in progress has returned
Interrupt_Deferred ==
    /\ pc \in BodyPcs \cup HandlerPcs \cup {"loop"}
    /\ intr_at = "none"
    /\ intr_at' = pc
    /\ pc' = InterruptTarget(pc)
    /\ trace' = IF pc \in CallSteps THEN Append(trace, pc) ELSE trace
    /\ UNCHANGED <<config, components, req_period, ex, branch, slept, exit_hooks,
                   web_stopped, exit_status>>

\* the operator interrupts the main thread, wherever it is in lines 74-133
Interrupt ==
    /\ pc \in BodyPcs \cup HandlerPcs \cup {"loop"}
    /\ intr_at = "none"
    /\ intr_at' = pc
    /\ pc' = InterruptTarget(pc)
    /\ UNCHANGED <<config, components, req_period, ex, branch, trace, slept, exit_hooks,
                   web_stopped, exit_status>>

\* lines 87-89: except KeyboardInterrupt: raise
ReraiseKeyboardInterrupt ==
    /\ pc = "except_kbd"
    /\ pc' = "interrupted"
    /\ UNCHANGED <<config, components, req_period, ex, branch, trace, slept, intr_at,
                   exit_hooks, web_stopped, exit_status>>

\* Shutdown without the call of PluginsManager.on_bot_exit()
Shutdown_NoExitHook ==
    /\ pc = "interrupted"
    /\ web_stopped' = web_server_enabled
    /\ exit_status' = 0
    /\ pc' = "stopped"
    /\ UNCHANGED <<config, components, req_period, ex, branch, trace, slept, intr_at,
                   exit_hooks>>

\* lines 136-141: the shutdown path; main returns and the process exits 0
Shutdown ==
    /\ pc = "interrupted"
    /\ web_stopped' = web_server_enabled
    /\ exit_hooks' = exit_hooks + 1
    /\ exit_status' = 0
    /\ pc' = "stopped"
    /\ UNCHANGED <<config, components, req_period, ex, branch, trace, slept, intr_at>>

Next ==
    \/ BeginCycle
    \/ Step
    \/ Sleep
    \/ Fail
    \/ HandleBadStatusLine
    \/ HandleURLError
    \/ HandleApiError
    \/ HandleException
    \/ AdditionalSleep
    \/ HandlerSleep
    \/ Interrupt
    \/ ReraiseKeyboardInterrupt
    \/ Shutdown

Spec == Init /\ [][Next]_vars

TypeOK ==
    /\ pc \in BodyPcs \cup HandlerPcs
              \cup {"loop", "except_kbd", "interrupted", "stopped", "crashed"}
    /\ ex \in Exceptions \cup {NoEx}
    /\ req_period \in Nat
    /\ exit_status \in {-1, 0, 1}

\* the control loop at rest, for the specifications of the components
MainIdle ==
    /\ pc = "loop"
    /\ sleep_time = BanSleep
    /\ has_analysis = FALSE
    /\ notify_caught = FALSE
    /\ web_server_enabled = FALSE
    /\ default_req_period = 1
    /\ req_period = 1
    /\ ex = NoEx
    /\ branch = "none"
    /\ trace = <<>>
    /\ slept = <<>>
    /\ intr_at = "none"
    /\ exit_hooks = 0
    /\ web_stopped = FALSE
    /\ exit_status = -1

main == <<pc, config, req_period, ex, branch, trace, slept, intr_at,
          exit_hooks, web_stopped, exit_status>>

\* ======================================================================
\* ExchangeApiFactory (ExchangeApiFactory.py)
\* ======================================================================

\* createApi is called at most MaxFactoryCalls times in a run
MaxFactoryCalls == 2
\* the config and logger objects passed to createApi are 1 .. MaxObjects
MaxObjects == 2

\* line 8: EXCHANGE = {'POLONIEX': Poloniex, 'BITFINEX': Bitfinex}
EXCHANGE ==
    [e \in {"POLONIEX", "BITFINEX"} |->
        IF e = "POLONIEX" THEN "Poloniex" ELSE "Bitfinex"]

\* the exchange identifiers createApi is called with; dict membership
\* (line 14) is exact, so 'poloniex' is not a key of EXCHANGE
ExchangeIds == {"POLONIEX", "BITFINEX", "poloniex", "KRAKEN"}

\* createApi with Poloniex as the fallback for an unknown identifier
CreateApiResult_Fallback(exchange, cfg, log) ==
    [exchange |-> exchange, cfg |-> cfg, log |-> log, raised |-> "none",
     message |-> <<>>,
     returned |-> <<[class |-> IF exchange \in DOMAIN EXCHANGE
                               THEN EXCHANGE[exchange] ELSE "Poloniex",
                     cfg |-> cfg, log |-> log]>>]

\* lines 13-16: the outcome of createApi(exchange, cfg, log): it raises
\* Exception("Invalid exchange: " + exchange) and constructs nothing, or
\* returns EXCHANGE[exchange](cfg, log)
CreateApiResult(exchange, cfg, log) ==
    IF exchange \notin DOMAIN EXCHANGE
    THEN [exchange |-> exchange, cfg |-> cfg, log |-> log,
          raised |-> "Exception",
          message |-> <<"Invalid exchange: ", exchange>>,
          returned |-> <<>>]
    ELSE [exchange |-> exchange, cfg |-> cfg, log |-> log, raised |-> "none",
          message |-> <<>>,
          returned |-> <<[class |-> EXCHANGE[exchange],
                          cfg |-> cfg, log |-> log]>>]

\* lines 12-16: one call of ExchangeApiFactory.createApi
CreateApi ==
    /\ factory.calls < MaxFactoryCalls
    /\ \E exchange \in ExchangeIds, cfg \in 1..MaxObjects,
          log \in 1..MaxObjects :
          LET r == CreateApiResult(exchange, cfg, log) IN
          factory' = [calls |-> factory.calls + 1,
                      constructed |-> factory.constructed \o r.returned,
                      last |-> r]
    /\ UNCHANGED <<main, limiter, transport>>

InitFactory ==
    /\ MainIdle
    /\ factory = FactoryIdle
    /\ limiter = LimiterIdle
    /\ transport = TransportIdle

NextFactory == CreateApi

SpecFactory == InitFactory /\ [][NextFactory]_vars

\* ======================================================================
\* The rate limiter (limit_request_rate of the adapter).  Its code is not
\* among the sources; it is modelled from the contract of the RateLimiter:
\* a log of admission times shared by the callers and updated under the
\* limiter's lock; a caller is admitted at the first instant at which
\* fewer than RateN admissions lie in the last RateW time units, and
\* returns no earlier than that instant.
\* ======================================================================

\* the limiter admits RateN requests per window of RateW time units
RateN == 2
RateW == 2
\* at most MaxCalls calls of the limiter are made in a run; the calls that
\* have not returned yet are in progress at once, each in a thread of its own
MaxCalls == 5
\* the clock runs from 0 to MaxTime
MaxTime == 4

\* SlotFor looking one admission too far back
SlotFor_OffByOne(log, now) ==
    IF Len(log) > RateN /\ log[Len(log) - RateN] + RateW > now
    THEN log[Len(log) - RateN] + RateW
    ELSE now

\* the instant at which a call made at time now is admitted, given the
\* admission times so far
SlotFor(log, now) ==
    IF Len(log) >= RateN /\ log[Len(log) - RateN + 1] + RateW > now
    THEN log[Len(log) - RateN + 1] + RateW
    ELSE now

\* a thread calls limit_request_rate: under the lock the call is given its
\* slot; it is call number Len(log) (from 0) in the order of admission
Acquire ==
    /\ Len(limiter.log) < MaxCalls
    /\ limiter' =
         [limiter EXCEPT
            !.log = Append(@, SlotFor(limiter.log, limiter.now)),
            !.ret = Append(@, -1)]
    /\ UNCHANGED <<main, factory, transport>>

\* call number k - 1 returns to its thread, at its slot or later
Return(k) ==
    /\ limiter.ret[k] = -1
    /\ limiter.now >= limiter.log[k]
    /\ limiter' = [limiter EXCEPT !.ret[k] = limiter.now]
    /\ UNCHANGED <<main, factory, transport>>

\* time passes
Tick ==
    /\ limiter.now < MaxTime
    /\ limiter' = [limiter EXCEPT !.now = @ + 1]
    /\ UNCHANGED <<main, factory, transport>>

InitLimiter ==
    /\ MainIdle
    /\ factory = FactoryIdle
    /\ limiter = LimiterIdle
    /\ transport = TransportIdle

NextLimiter ==
    \/ Acquire
    \/ \E k \in 1..Len(limiter.log) : Return(k)
    \/ Tick

SpecLimiter == InitLimiter /\ [][NextLimiter]_vars

\* ======================================================================
\* The nonce of the authenticated transport.  Its code is not among the
\* sources; it is modelled from the contract of the Transport: every call
\* attempt, a retried one included, is given a freshly allocated nonce,
\* and allocation is atomic across the threads sharing the credentials.
\* ======================================================================

\* the calls made concurrently with one credential set are 1 .. MaxNonceCalls
MaxNonceCalls == 3
\* a call is attempted at most MaxAttempts times
MaxAttempts == 2

\* AllocateNonce sending a retried attempt with the nonce of the failed one
AllocateNonce_ReuseOnRetry(counter, last, retry) ==
    IF retry THEN last ELSE counter + 1

\* the nonce given to an attempt: one more than the last nonce issued
AllocateNonce(counter, last, retry) == counter + 1

\* call c is attempted (first attempt or retry): its nonce is allocated
\* atomically and the request is sent
Send(c) ==
    /\ transport.call[c].state \in {"idle", "retry"}
    /\ LET n == AllocateNonce(transport.nonce, transport.call[c].last,
                              transport.call[c].state = "retry")
       IN transport' =
            [transport EXCEPT
               !.nonce = n,
               !.issued = Append(@, n),
               !.attempts = @ + 1,
               !.call[c] = [state |-> "inflight", tries |-> @.tries + 1,
                            last |-> n]]
    /\ UNCHANGED <<main, factory, limiter>>

\* the attempt of call c in flight fails and will be retried
AttemptFails(c) ==
    /\ transport.call[c].state = "inflight"
    /\ transport.call[c].tries < MaxAttempts
    /\ transport' = [transport EXCEPT !.call[c].state = "retry"]
    /\ UNCHANGED <<main, factory, limiter>>

\* the attempt of call c in flight is answered
AttemptReturns(c) ==
    /\ transport.call[c].state = "inflight"
    /\ transport' = [transport EXCEPT !.call[c].state = "done"]
    /\ UNCHANGED <<main, factory, limiter>>

InitTransport ==
    /\ MainIdle
    /\ factory = FactoryIdle
    /\ limiter = LimiterIdle
    /\ transport =
         [nonce |-> 0, issued |-> <<>>, attempts |-> 0,
          call |-> [c \in 1..MaxNonceCalls |->
                      [state |-> "idle", tries |-> 0, last |-> 0]]]

NextTransport ==
    \/ \E c \in 1..MaxNonceCalls : Send(c)
    \/ \E c \in 1..MaxNonceCalls : AttemptFails(c)
    \/ \E c \in 1..MaxNonceCalls : AttemptReturns(c)

SpecTransport == InitTransport /\ [][NextTransport]_vars

\* ======================================================================
\* Properties
\* ======================================================================

\* the positions after an operator interrupt (lines 87-89 and 136-141)
StoppingPcs == {"except_kbd", "interrupted", "stopped"}

\* C1: a failure whose message contains 'Invalid API key', 'Permission
\* denied' or 'Nonce must be greater' terminates the loop, whatever the
\* class of the exception: no further cycle begins after it (control never
\* returns to line 74 with that failure).
C1_FatalByMessage ==
    (ex # NoEx /\ ex.msg \cap FatalBranches # {}) => pc # "loop"

\* C2: in a cycle that does not fail the steps run in the fixed order
\* update_conversion_rates, before_lending, transfer_balances, cancel_all,
\* lend_all, after_lending, refreshStatus, persistStatus, sleep: at every
\* position of the cycle exactly the steps before it have run, in that
\* order, and control is back at line 74 only after all nine, the last
\* being the one sleep of the cycle interval.
C2_StepOrder ==
    LET order == <<"update_conversion_rates", "before_lending",
                   "transfer_balances", "cancel_all", "lend_all",
                   "after_lending", "refreshStatus", "persistStatus",
                   "sleep">>
    IN  /\ \A i \in 1..9 :
            (ex = NoEx /\ pc = order[i]) => trace = SubSeq(order, 1, i - 1)
        /\ (ex = NoEx /\ pc = "loop" /\ trace # <<>>) =>
            (trace = order /\ slept = <<sleep_time>>)
        /\ (ex = NoEx /\ pc \notin StoppingPcs) =>
            (pc \in {"loop"} \cup {order[i] : i \in 1..9})

\* C2 witness: a whole cycle has run without failure and control is back at
\* line 74
C2_Witness ==
    /\ pc = "loop"
    /\ ex = NoEx
    /\ Len(trace) = 9
    /\ slept = <<sleep_time>>

\* C3: a failure whose message contains 'Error 429' (and no other
\* indicator) is handled by the rate-limit branch, and the loop sleeps
\* max(130 - cycle_interval, 0) and then cycle_interval seconds before the
\* next cycle begins; it does not end the process.  Stated for the failures
\* that reach the generic except clause (no typed clause intercepts them).
C3_RateLimitSleep ==
    (ex.type = "Exception" /\ ex.msg = {"Error 429"}
        /\ pc \in {"loop", "crashed"}) =>
        /\ pc = "loop"
        /\ branch = "Error 429"
        /\ slept = <<(IF 130 - sleep_time > 0 THEN 130 - sleep_time ELSE 0),
                     sleep_time>>

\* C4: req_period is at most 1.5 times default_req_period in every state.
C4_ReqPeriodCap == 2 * req_period <= 3 * default_req_period

C6_InterruptDuringSleep ==
    /\ [](intr_at \in SleepPcs =>
            /\ pc \in StoppingPcs
            /\ exit_hooks = (IF pc = "stopped" THEN 1 ELSE 0))
    /\ [][intr_at' \in SleepPcs =>
            /\ trace' = trace
            /\ slept' = slept
            /\ ex' = ex
            /\ branch' = branch
            /\ req_period' = req_period]_vars

\* C6 witness: the loop has stopped after an interrupt during the sleep of
\* the failure-recovery path, with the exit hook called once
C6_Witness ==
    /\ pc = "stopped"
    /\ intr_at = "handler_sleep"
    /\ exit_hooks = 1

C8_IgnorableContinues ==
    /\ [](ex.type \in {"URLError", "BadStatusLine"} =>
            /\ pc \in {"except", "loop"} \cup StoppingPcs
            /\ slept = <<>>
            /\ exit_status # 1)
    /\ [][(pc = "except" /\ ex.type \in {"URLError", "BadStatusLine"}
              /\ intr_at' = intr_at)
          => (pc' = "loop" /\ trace' = trace /\ slept' = slept
                /\ req_period' = req_period)]_vars
    /\ [][(pc = "loop" /\ intr_at' = intr_at)
          => pc' = "update_conversion_rates"]_vars

\* C8 witness: a URLError has been handled and the loop is about to begin the
\* next cycle, without having slept
C8_Witness ==
    /\ pc = "loop"
    /\ ex.type = "URLError"
    /\ branch = "URLError"
    /\ slept = <<>>

\* C9: a failure whose message contains 'timed out' and no Fatal indicator
\* does not end the process, and when control is back at line 74 the loop
\* has slept exactly once, for the cycle interval.  Stated for the failures
\* that reach the generic except clause (no typed clause intercepts them).
C9_TimeoutSleepsOnce ==
    (ex.type = "Exception" /\ "timed out" \in ex.msg
        /\ ex.msg \cap FatalBranches = {}
        /\ pc \in {"loop", "crashed"})
    => (pc = "loop" /\ slept = <<sleep_time>>)

\* C10: a failure whose message contains no indicator and that no typed
\* except clause intercepts (so it is no transport-level error) does not end
\* the process; it is logged, notify is called if and only if
\* notify_caught_exception is set, and when control is back at line 74 the
\* loop has slept exactly once, for the cycle interval.
C10_UnknownIsTransient ==
    (ex.type = "Exception" /\ ex.msg = {} /\ pc \in {"loop", "crashed"})
    => /\ pc = "loop"
       /\ slept = <<sleep_time>>
       /\ \E i \in 1..Len(trace) : trace[i] = "log_error"
       /\ notify_caught <=> (\E i \in 1..Len(trace) : trace[i] = "notify")

\* C11: the process ends with exit status 0 exactly when it has stopped on
\* an operator interrupt, and the only other way it ends is a Fatal failure
\* re-raised to the top level, with a non-zero exit status.
C11_ExitStatus ==
    /\ exit_status = 0 <=> pc = "stopped"
    /\ pc = "stopped" => intr_at # "none"
    /\ pc = "crashed" => (exit_status = 1 /\ branch \in FatalBranches)
    /\ exit_status = 1 => pc = "crashed"

\* C15: once a call of lines 76-84 has failed, control does not return to
\* the body of that cycle and nothing is added to the completed calls except
\* by the generic except clause (its logger calls); a failure handled by one
\* of the three re-raising branches leaves the process ended, with no sleep
\* done, and no step follows the end of the process.
C15_FailureEndsCycle ==
    /\ [](ex # NoEx => pc \notin BodyPcs \cup {"except_kbd"})
    /\ [](branch \in {"Invalid API key", "Nonce must be greater",
                      "Permission denied"}
            => (pc = "crashed" /\ slept = <<>> /\ exit_status = 1))
    /\ [][(ex # NoEx /\ pc # "loop" /\ trace' # trace)
            => (pc = "except" /\ ex.type = "Exception"
                  /\ pc' \notin BodyPcs)]_vars
    /\ [][pc # "crashed"]_vars

\* C15 witness: lend_all failed with a Fatal failure after four completed
\* calls; only the logger calls of lines 97-98 followed and the process has
\* ended without sleeping
C15_Witness ==
    /\ pc = "crashed"
    /\ branch = "Nonce must be greater"
    /\ trace = <<"update_conversion_rates", "before_lending",
                 "transfer_balances", "cancel_all",
                 "log_error", "persistStatus">>
    /\ slept = <<>>

\* C16: req_period changes only in the 'Error 429' branch of the generic
\* except clause, by exactly +3 and once per failure; every other step of
\* the loop, of the other branches and of the shutdown path leaves it
\* unchanged (so it never decreases).
C16_ReqPeriodFrame ==
    [][req_period' # req_period
        => /\ pc = "except"
           /\ branch = "none"
           /\ branch' = "Error 429"
           /\ req_period' = req_period + 3]_vars

\* C16 witness: two rate-limit failures have each added 3 to req_period
C16_Witness ==
    /\ pc = "loop"
    /\ branch = "Error 429"
    /\ req_period = default_req_period + 6

\* C17: a BadStatusLine, URLError or ApiError is handled by its own except
\* clause whatever its message: it never ends the process, no logger call
\* is made, req_period is unchanged and nothing is slept; unless the
\* operator interrupts, control goes straight back to line 74 and the next
\* cycle begins.
C17_TypedClausesFirst ==
    /\ [](ex.type \in {"BadStatusLine", "URLError", "ApiError"} =>
            /\ pc \in {"except", "loop"} \cup StoppingPcs
            /\ slept = <<>>
            /\ branch \in {"none", ex.type}
            /\ exit_status # 1
            /\ \A i \in 1..Len(trace) :
                   trace[i] \notin {"log_error", "notify"})
    /\ [][(pc = "except"
              /\ ex.type \in {"BadStatusLine", "URLError", "ApiError"}
              /\ intr_at' = intr_at)
          => (pc' = "loop" /\ trace' = trace /\ slept' = slept
                /\ req_period' = req_period /\ branch' = ex.type)]_vars
    /\ [][(pc = "loop" /\ branch \in {"BadStatusLine", "URLError", "ApiError"}
              /\ intr_at' = intr_at)
          => pc' = "update_conversion_rates"]_vars

\* C17 witness: an ApiError whose message holds 'Invalid API key' has been
\* ignored and the loop is about to begin the next cycle
C17_Witness ==
    /\ pc = "loop"
    /\ ex.type = "ApiError"
    /\ "Invalid API key" \in ex.msg
    /\ branch = "ApiError"
    /\ exit_status = -1

\* C18: for a failure that reaches the generic except clause exactly one
\* branch is taken, the first in the order 'Invalid API key', 'Nonce must
\* be greater', 'Permission denied', 'timed out', 'Error 429', otherwise
\* unhandled; a message with a Fatal indicator ends the process, and a
\* message with both 'timed out' and 'Error 429' (and no Fatal indicator)
\* is handled as a timeout: one sleep of the cycle interval, then the next
\* cycle.
C18_PriorityOrder ==
    (ex.type = "Exception" /\ pc \in {"loop", "crashed"}) =>
        /\ branch =
             (IF "Invalid API key" \in ex.msg THEN "Invalid API key"
              ELSE IF "Nonce must be greater" \in ex.msg
                   THEN "Nonce must be greater"
              ELSE IF "Permission denied" \in ex.msg THEN "Permission denied"
              ELSE IF "timed out" \in ex.msg THEN "timed out"
              ELSE IF "Error 429" \in ex.msg THEN "Error 429"
              ELSE "unhandled")
        /\ pc = "crashed" <=> branch \in FatalBranches
        /\ ex.msg = {"timed out", "Error 429"} =>
              (pc = "loop" /\ slept = <<sleep_time>>)

\* C19: on_bot_exit is called at most once, and it has been called exactly
\* when the loop has ended through an operator interrupt; when the process
\* ends through a re-raised failure the exit hook is not called and the web
\* server is not stopped.
C19_ExitHookIffInterrupt ==
    /\ exit_hooks \in {0, 1}
    /\ exit_hooks = 1 <=> pc = "stopped"
    /\ pc = "stopped" => intr_at # "none"
    /\ pc = "crashed" => (exit_hooks = 0 /\ ~web_stopped)
    /\ web_stopped => (pc = "stopped" /\ web_server_enabled)

\* C19 witness: the process has ended through a Fatal failure with the web
\* server enabled; neither the exit hook nor stop_web_server has run
C19_Witness ==
    /\ pc = "crashed"
    /\ branch = "Permission denied"
    /\ web_server_enabled
    /\ ~web_stopped
    /\ exit_hooks = 0

\* C20: the loop stops only through an operator interrupt or a failure
\* handled by one of the three Fatal branches; after any other failure a
\* new cycle can still begin.
C20_StopsOnlyByInterruptOrFatal ==
    pc \in {"crashed", "stopped"} =>
        (intr_at # "none" \/ ex.msg \cap FatalBranches # {})

\* C12: createApi called with an identifier other than POLONIEX and BITFINEX
\* fails (it raises) and constructs no adapter; called with POLONIEX or
\* BITFINEX it raises nothing and constructs exactly one adapter, of the
\* class mapped to the identifier (Poloniex, Bitfinex), with the config and
\* logger it was given.
C12_FactorySelects ==
    /\ [](factory.last # NoCall =>
            LET l == factory.last IN
            IF l.exchange \in {"POLONIEX", "BITFINEX"}
            THEN /\ l.raised = "none"
                 /\ l.returned =
                      <<[class |-> IF l.exchange = "POLONIEX"
                                   THEN "Poloniex" ELSE "Bitfinex",
                         cfg |-> l.cfg, log |-> l.log]>>
            ELSE /\ l.raised # "none"
                 /\ l.returned = <<>>)
    /\ [][factory' # factory =>
            factory'.constructed =
                IF factory'.last.exchange \in {"POLONIEX", "BITFINEX"}
                THEN Append(factory.constructed,
                            [class |-> IF factory'.last.exchange = "POLONIEX"
                                       THEN "Poloniex" ELSE "Bitfinex",
                             cfg |-> factory'.last.cfg,
                             log |-> factory'.last.log])
                ELSE factory.constructed]_vars

\* C12 witness: a call with an unknown identifier has failed and constructed
\* nothing, after a call with BITFINEX that constructed one Bitfinex adapter
C12_Witness ==
    /\ factory.calls = 2
    /\ factory.last.exchange = "KRAKEN"
    /\ factory.last.raised = "Exception"
    /\ Len(factory.constructed) = 1
    /\ factory.constructed[1].class = "Bitfinex"

\* C13: with the limiter set to RateN requests per RateW time units, the
\* k-th call (k counted from 0, in the order in which the limiter admits
\* the calls, whether they come from one thread or from threads running
\* concurrently) returns no earlier than (k div RateN) * RateW after the
\* first call, and no window of RateW time units holds more than RateN
\* admissions.
C13_RateLimit ==
    /\ \A k \in 1..Len(limiter.ret) :
          limiter.ret[k] # -1 =>
              limiter.ret[k] >=
                  limiter.log[1] + ((k - 1) \div RateN) * RateW
    /\ \A i \in 1..Len(limiter.log) :
          Cardinality({j \in 1..Len(limiter.log) :
                          /\ limiter.log[i] <= limiter.log[j]
                          /\ limiter.log[j] < limiter.log[i] + RateW})
              <= RateN

\* C13 witness: call number 2 * RateN has returned exactly two windows after
\* the first call, while an earlier call is still in progress
C13_Witness ==
    /\ Len(limiter.ret) > 2 * RateN
    /\ limiter.ret[2 * RateN + 1] = limiter.log[1] + 2 * RateW
    /\ \E k \in 1..(2 * RateN) : limiter.ret[k] = -1

\* C14: the nonces issued to concurrent calls with one credential set are
\* strictly increasing in the order of allocation, so no two are equal,
\* however the calls interleave; and the nonce counter has advanced by
\* exactly one for every attempt made, retried attempts included.
C14_NonceMonotonic ==
    /\ \A i, j \in 1..Len(transport.issued) :
          i < j => transport.issued[i] < transport.issued[j]
    /\ Len(transport.issued) = transport.attempts
    /\ transport.nonce = transport.attempts
    /\ \A c \in DOMAIN transport.call :
          transport.call[c].tries > 0 =>
              \E i \in 1..Len(transport.issued) :
                  transport.issued[i] = transport.call[c].last

\* C14 witness: two calls are in flight at once while a third has been
\* retried, and as many nonces as attempts have been issued
C14_Witness ==
    /\ \E c \in DOMAIN transport.call : transport.call[c].tries = 2
    /\ \E c, d \in DOMAIN transport.call :
          /\ c # d
          /\ transport.call[c].state = "inflight"
          /\ transport.call[d].state = "inflight"
    /\ Len(transport.issued) = 4
====
